---- MODULE Spec2Model ----
(***************************************************************************)
(* A model of the httpie command line client (src/src/main.rs).            *)
(*                                                                         *)
(* One process: main parses the command line, builds one HTTP client,      *)
(* dispatches to get or post, and renders the response.  Strings whose     *)
(* characters matter (key=value tokens, response bodies) are sequences of  *)
(* one-character strings.                                                  *)
(***************************************************************************)
EXTENDS Integers, Sequences, FiniteSets, TLC

VARIABLES
    argv,       \* the command line: [subcmd, url, tokens]
    pc,         \* position of main / get / post / print_resp
    opts,       \* the parsed Opts (None before and on failure)
    client,     \* the reqwest client once built (None before)
    requests,   \* requests handed to the transport, each with its reply
    resp,       \* the received Response (None before)
    mime,       \* print_resp's local `mime`
    body,       \* print_resp's local `body`
    calls,      \* print_resp's calls so far, in order
    syntect,    \* invocations of print_syntect: <<[s, ext]>>
    stdout,     \* lines written to standard output
    stderr,     \* diagnostics written to standard error
    exitCode    \* process exit status (NoExit while running)

vars == <<argv, pc, opts, client, requests, resp, mime, body, calls,
          syntect, stdout, stderr, exitCode>>

----------------------------------------------------------------------------
(* Bounds *)

MaxPairs == 2
MaxHeaders == 2

----------------------------------------------------------------------------
(* Values *)

None == [none |-> TRUE]
NoExit == -1

\* exit statuses: main returning Ok, main returning Err, clap's usage error,
\* and a panic
EXIT_OK == 0
EXIT_ERR == 1
EXIT_USAGE == 2
EXIT_PANIC == 101

Ok(v) == [ok |-> TRUE, val |-> v]
Err(e) == [ok |-> FALSE, err |-> e]

SeqsUpTo(S, n) == UNION {[1..m -> S] : m \in 0..n}

\* command-line tokens for post's body: a=1 a=2 b=2 a=b=c =v k= and, with
\* no "=", the word kv and the empty token
Tokens ==
    { <<"a", "=", "1">>, <<"a", "=", "2">>, <<"b", "=", "2">>,
      <<"a", "=", "b", "=", "c">>, <<"=", "v">>, <<"k", "=">>,
      <<"k", "v">>, <<>> }

\* response texts: empty, {"a":1}, and two lines <p> </p>
JsonText == <<"{", "\"", "a", "\"", ":", "1", "}">>
HtmlText == <<"<", "p", ">", "\n", "<", "/", "p", ">", "\n">>
Bodies == { <<>>, JsonText, HtmlText }

Urls == {"http://x/y", "ht!tp://bad", "not a url"}

Statuses == {200, 404, 500}

----------------------------------------------------------------------------
(* KvPair::from_str and parse_kv_pair (main.rs 64-79) *)

\* index of the first occurrence of c in s, 0 when there is none
IndexOf(s, c) ==
    IF \E i \in 1..Len(s) : s[i] = c
    THEN CHOOSE i \in 1..Len(s) : s[i] = c /\ \A j \in 1..(i-1) : s[j] # c
    ELSE 0

\* str::split(c): the pieces between every occurrence of c; at least one
RECURSIVE Split(_, _)
Split(s, c) ==
    LET i == IndexOf(s, c) IN
    IF i = 0 THEN <<s>>
    ELSE <<SubSeq(s, 1, i - 1)>> \o Split(SubSeq(s, i + 1, Len(s)), c)

\* the closure `err`: anyhow!(format!("Failed to parse {}", s))
ParseErr(s) == <<"Failed to parse ">> \o s

\* the first two items of the split iterator; a missing item is the error
KvPair_from_str(s) ==
    LET split == Split(s, "=") IN
    IF Len(split) < 1 THEN Err(ParseErr(s))
    ELSE IF Len(split) < 2 THEN Err(ParseErr(s))
    ELSE Ok([k |-> split[1], v |-> split[2]])

parse_kv_pair(s) == KvPair_from_str(s)

----------------------------------------------------------------------------
(* parse_url (main.rs 81-86) *)

\* reqwest::Url's parser on the sample command-line URLs
Url_parse(s) ==
    IF s \in {"http://x/y"} THEN Ok(s) ELSE Err(<<"relative URL without a base">>)

\* a validator that accepts everything
parse_url_unchecked(s) == Ok(s)

parse_url(s) ==
    LET _url == Url_parse(s) IN
    IF _url.ok THEN Ok(s) ELSE Err(_url.err)

----------------------------------------------------------------------------
(* Opts::parse (main.rs 18-54, 147): clap runs the field parsers over the *)
(* arguments in order and stops at the first failure                      *)

RECURSIVE ParseBody(_)
ParseBody(tokens) ==
    IF tokens = <<>> THEN Ok(<<>>)
    ELSE LET r == parse_kv_pair(Head(tokens)) IN
         IF ~r.ok THEN r
         ELSE LET rest == ParseBody(Tail(tokens)) IN
              IF ~rest.ok THEN rest ELSE Ok(<<r.val>> \o rest.val)

Opts_parse(args) ==
    LET u == parse_url(args.url) IN
    IF ~u.ok THEN u
    ELSE IF args.subcmd = "get" THEN Ok([subcmd |-> "get", url |-> u.val])
    ELSE LET b == ParseBody(args.tokens) IN
         IF ~b.ok THEN b
         ELSE Ok([subcmd |-> "post", url |-> u.val, body |-> b.val])

----------------------------------------------------------------------------
(* post's request body (main.rs 95-98) *)

EmptyMap == <<>>

\* an insert that keeps the value already stored under the key
HashMap_insert_keep(m, k, v) ==
    IF k \in DOMAIN m THEN m
    ELSE [x \in DOMAIN m \cup {k} |-> IF x = k THEN v ELSE m[x]]

\* HashMap::insert: the new value replaces the one stored under the key
HashMap_insert(m, k, v) ==
    [x \in DOMAIN m \cup {k} |-> IF x = k THEN v ELSE m[x]]

\* the loop over args.body, in order
RECURSIVE BuildBody(_, _)
BuildBody(m, pairs) ==
    IF pairs = <<>> THEN m
    ELSE BuildBody(HashMap_insert(m, Head(pairs).k, Head(pairs).v), Tail(pairs))

----------------------------------------------------------------------------
(* The response and its headers *)

CONTENT_TYPE == "content-type"

\* header values: `ascii` is whether HeaderValue::to_str succeeds
HeaderValues ==
    { [bytes |-> b, ascii |-> TRUE] :
        b \in {"application/json", "text/html", "text/plain", "garbage"} }
    \cup { [bytes |-> "\\xff", ascii |-> FALSE] }

HeaderPool ==
    { [name |-> "x", value |-> [bytes |-> "1", ascii |-> TRUE]] }
    \cup { [name |-> CONTENT_TYPE, value |-> v] : v \in HeaderValues }

\* resp.headers() in its iteration order
HeaderLists == SeqsUpTo(HeaderPool, MaxHeaders)

\* a Response as send() resolves it: the head; the body is read by text()
Responses ==
    [version : {"HTTP/1.1"}, status : Statuses, headers : HeaderLists]

\* what the transport does with a request: a response or a failure
TransportOutcomes ==
    { Ok(r) : r \in Responses } \cup { Err(<<"error sending request">>) }

\* what resp.text().await yields: the body text or a failure
TextOutcomes ==
    { Ok(b) : b \in Bodies } \cup { Err(<<"error decoding response body">>) }

\* a send that turns an error status into a failure
send_error_for_status(outcome) ==
    IF outcome.ok /\ outcome.val.status >= 400
    THEN Err(<<"HTTP status error">>)
    ELSE outcome

\* RequestBuilder::send().await: whatever the transport did, whatever the
\* status
send(outcome) == outcome

HeaderValue_to_str(v) ==
    IF v.ascii THEN Ok(v.bytes) ELSE Err(<<"ToStrError">>)

Mime(t, sub, params) == [type |-> t, subtype |-> sub, params |-> params]

APPLICATION_JSON == Mime("application", "json", <<>>)
TEXT_HTML == Mime("text", "html", <<>>)

\* str::parse::<Mime> on the sample header values
Mime_from_str(s) ==
    CASE s = "application/json" -> Ok(APPLICATION_JSON)
      [] s = "text/html" -> Ok(TEXT_HTML)
      [] s = "text/plain" -> Ok(Mime("text", "plain", <<>>))
      [] OTHER -> Err(<<"FromStrError">>)

\* HeaderMap::get: the first value stored under the name
HeaderMap_get(headers, name) ==
    IF \E i \in 1..Len(headers) : headers[i].name = name
    THEN LET i == CHOOSE i \in 1..Len(headers) :
                    /\ headers[i].name = name
                    /\ \A j \in 1..(i-1) : headers[j].name # name
         IN Ok(headers[i].value)
    ELSE Err(<<"absent">>)

\* get_content_type (main.rs 137-142): None without the header; each
\* unwrap panics on its Err
Panic == [panic |-> TRUE]
Some(v) == [some |-> v]

get_content_type(r) ==
    LET h == HeaderMap_get(r.headers, CONTENT_TYPE) IN
    IF ~h.ok THEN None
    ELSE LET t == HeaderValue_to_str(h.val) IN
         IF ~t.ok THEN Panic
         ELSE LET m == Mime_from_str(t.val) IN
              IF ~m.ok THEN Panic ELSE Some(m.val)

----------------------------------------------------------------------------
(* Rendering (main.rs 105-135, 163-173) *)

Blank == [kind |-> "blank"]

\* print_status: "{version:?} {status}" and, from the "\n", an empty line
print_status(r) ==
    << [kind |-> "status", version |-> r.version, status |-> r.status],
       Blank >>

\* a header loop that walks the map backwards
print_headers_reversed(r) ==
    [i \in 1..Len(r.headers) |->
        [kind |-> "header",
         name |-> r.headers[Len(r.headers) + 1 - i].name,
         value |-> r.headers[Len(r.headers) + 1 - i].value.bytes]]
    \o <<Blank>>

\* print_headers: one line per header in iteration order, then println!()
print_headers(r) ==
    [i \in 1..Len(r.headers) |->
        [kind |-> "header", name |-> r.headers[i].name,
         value |-> r.headers[i].value.bytes]]
    \o <<Blank>>

\* syntect's LinesWithEndings: each line keeps its terminator
RECURSIVE LinesWithEndings(_)
LinesWithEndings(s) ==
    IF s = <<>> THEN <<>>
    ELSE LET i == IndexOf(s, "\n") IN
         IF i = 0 THEN <<s>>
         ELSE <<SubSeq(s, 1, i)>> \o LinesWithEndings(SubSeq(s, i + 1, Len(s)))

\* print_syntect: one println per highlighted line
print_syntect(s, ext) ==
    LET lines == LinesWithEndings(s) IN
    [i \in 1..Len(lines) |->
        [kind |-> "highlighted", ext |-> ext, text |-> lines[i]]]

\* a match that has lost its text/html arm
print_body_path_no_html(m) ==
    IF m = Some(APPLICATION_JSON) THEN "json" ELSE "raw"

\* the arm print_body's match takes
print_body_path(m) ==
    CASE m = Some(APPLICATION_JSON) -> "json"
      [] m = Some(TEXT_HTML) -> "html"
      [] OTHER -> "raw"

print_body(m, b) ==
    LET path == print_body_path(m) IN
    IF path = "raw" THEN <<[kind |-> "raw", text |-> b]>>
    ELSE print_syntect(b, path)

\* <str as Debug>::fmt: the text in double quotes, with escapes
EscapeDebug(c) ==
    CASE c = "\"" -> <<"\\", "\"">>
      [] c = "\n" -> <<"\\", "n">>
      [] c = "\\" -> <<"\\", "\\">>
      [] OTHER -> <<c>>

RECURSIVE EscapeAll(_)
EscapeAll(s) ==
    IF s = <<>> THEN <<>> ELSE EscapeDebug(Head(s)) \o EscapeAll(Tail(s))

DebugFmt(s) == <<"\"">> \o EscapeAll(s) \o <<"\"">>

\* a post that prints the text as it came
post_print_plain(text) == <<[kind |-> "raw", text |-> text]>>

\* post's println!("{:?}", text) (main.rs 101)
post_print(text) == <<[kind |-> "debug", text |-> DebugFmt(text)]>>

----------------------------------------------------------------------------
(* The program *)

Argvs ==
    { [subcmd |-> "get", url |-> u, tokens |-> <<>>] : u \in Urls }
    \cup { [subcmd |-> "post", url |-> u, tokens |-> t] :
             u \in Urls, t \in SeqsUpTo(Tokens, MaxPairs) }

Init ==
    /\ argv \in Argvs
    /\ pc = "main"
    /\ opts = None
    /\ client = None
    /\ requests = <<>>
    /\ resp = None
    /\ mime = None
    /\ body = None
    /\ calls = <<>>
    /\ syntect = <<>>
    /\ stdout = <<>>
    /\ stderr = <<>>
    /\ exitCode = NoExit

\* the process ends with status `code` after writing `diag` to stderr
Exit(code, diag) ==
    /\ pc' = "exited"
    /\ exitCode' = code
    /\ stderr' = stderr \o diag

\* main.rs 147: Opts::parse(); clap reports a failure and exits
ParseArgs ==
    /\ pc = "main"
    /\ LET r == Opts_parse(argv) IN
       IF r.ok
       THEN /\ opts' = r.val
            /\ pc' = "build_client"
            /\ UNCHANGED <<stderr, exitCode>>
       ELSE /\ Exit(EXIT_USAGE, <<[kind |-> "usage", msg |-> r.err]>>)
            /\ UNCHANGED opts
    /\ UNCHANGED <<argv, client, requests, resp, mime, body, calls, syntect,
                   stdout>>

\* main.rs 149-154: the default headers and Client::builder().build()?
BuildClient ==
    /\ pc = "build_client"
    /\ \E built \in BOOLEAN :
         IF built
         THEN /\ client' = [default_headers |->
                              << <<"X-POWERED-BY", "Rust">>,
                                 <<"user-agent", "Rust Httpie">> >>]
              /\ pc' = "dispatch"
              /\ UNCHANGED <<stderr, exitCode>>
         ELSE /\ Exit(EXIT_ERR, <<[kind |-> "error", msg |-> <<"builder error">>]>>)
              /\ UNCHANGED client
    /\ UNCHANGED <<argv, opts, requests, resp, mime, body, calls, syntect,
                   stdout>>

\* main.rs 156, 89: get sends the request; `?` returns the failure
Get ==
    /\ pc = "dispatch"
    /\ opts.subcmd = "get"
    /\ \E outcome \in TransportOutcomes :
         LET r == send(outcome) IN
         /\ requests' = Append(requests,
                [method |-> "GET", url |-> opts.url, client |-> client,
                 reply |-> outcome])
         /\ IF r.ok
            THEN /\ resp' = r.val
                 /\ pc' = "print_status"
                 /\ UNCHANGED <<stderr, exitCode>>
            ELSE /\ Exit(EXIT_ERR, <<[kind |-> "error", msg |-> r.err]>>)
                 /\ UNCHANGED resp
    /\ UNCHANGED <<argv, opts, client, mime, body, calls, syntect, stdout>>

\* main.rs 157, 95-100: post builds the body map and sends it as JSON
Post ==
    /\ pc = "dispatch"
    /\ opts.subcmd = "post"
    /\ \E outcome \in TransportOutcomes :
         LET r == send(outcome) IN
         /\ requests' = Append(requests,
                [method |-> "POST", url |-> opts.url, client |-> client,
                 json |-> BuildBody(EmptyMap, opts.body),
                 reply |-> outcome])
         /\ IF r.ok
            THEN /\ resp' = r.val
                 /\ pc' = "post_text"
                 /\ UNCHANGED <<stderr, exitCode>>
            ELSE /\ Exit(EXIT_ERR, <<[kind |-> "error", msg |-> r.err]>>)
                 /\ UNCHANGED resp
    /\ UNCHANGED <<argv, opts, client, mime, body, calls, syntect, stdout>>

\* main.rs 101-102: post prints the text and returns Ok(())
PostText ==
    /\ pc = "post_text"
    /\ \E t \in TextOutcomes :
         IF t.ok
         THEN /\ stdout' = stdout \o post_print(t.val)
              /\ Exit(EXIT_OK, <<>>)
         ELSE /\ Exit(EXIT_ERR, <<[kind |-> "error", msg |-> t.err]>>)
              /\ UNCHANGED stdout
    /\ UNCHANGED <<argv, opts, client, requests, resp, mime, body, calls,
                   syntect>>

\* main.rs 129
PrintStatus ==
    /\ pc = "print_status"
    /\ stdout' = stdout \o print_status(resp)
    /\ calls' = Append(calls, "print_status")
    /\ pc' = "print_headers"
    /\ UNCHANGED <<argv, opts, client, requests, resp, mime, body, syntect,
                   stderr, exitCode>>

\* main.rs 130
PrintHeaders ==
    /\ pc = "print_headers"
    /\ stdout' = stdout \o print_headers(resp)
    /\ calls' = Append(calls, "print_headers")
    /\ pc' = "get_content_type"
    /\ UNCHANGED <<argv, opts, client, requests, resp, mime, body, syntect,
                   stderr, exitCode>>

\* main.rs 131: a panicking unwrap ends the process
GetContentType ==
    /\ pc = "get_content_type"
    /\ calls' = Append(calls, "get_content_type")
    /\ LET m == get_content_type(resp) IN
       IF m = Panic
       THEN /\ Exit(EXIT_PANIC, <<[kind |-> "panic", msg |-> <<"unwrap">>]>>)
            /\ UNCHANGED mime
       ELSE /\ mime' = m
            /\ pc' = "text"
            /\ UNCHANGED <<stderr, exitCode>>
    /\ UNCHANGED <<argv, opts, client, requests, resp, body, syntect, stdout>>

\* main.rs 132: resp.text().await?
ReadText ==
    /\ pc = "text"
    /\ calls' = Append(calls, "text")
    /\ \E t \in TextOutcomes :
         IF t.ok
         THEN /\ body' = Some(t.val)
              /\ pc' = "print_body"
              /\ UNCHANGED <<stderr, exitCode>>
         ELSE /\ Exit(EXIT_ERR, <<[kind |-> "error", msg |-> t.err]>>)
              /\ UNCHANGED body
    /\ UNCHANGED <<argv, opts, client, requests, resp, mime, syntect, stdout>>

\* main.rs 133-134, 91, 160: print_body, then Ok(()) all the way up
PrintBody ==
    /\ pc = "print_body"
    /\ calls' = Append(calls, "print_body")
    /\ stdout' = stdout \o print_body(mime, body.some)
    /\ syntect' = IF print_body_path(mime) = "raw" THEN syntect
                  ELSE Append(syntect,
                         [s |-> body.some, ext |-> print_body_path(mime)])
    /\ Exit(EXIT_OK, <<>>)
    /\ UNCHANGED <<argv, opts, client, requests, resp, mime, body>>

Next ==
    \/ ParseArgs
    \/ BuildClient
    \/ Get
    \/ Post
    \/ PostText
    \/ PrintStatus
    \/ PrintHeaders
    \/ GetContentType
    \/ ReadText
    \/ PrintBody

Spec == Init /\ [][Next]_vars

----------------------------------------------------------------------------
(* Vocabulary of the properties *)

HasEq(s) == \E i \in 1..Len(s) : s[i] = "="

\* split once on the first "="
SplitOnce(s) ==
    LET i == CHOOSE i \in 1..Len(s) : s[i] = "=" /\ \A j \in 1..(i-1) : s[j] # "="
    IN [k |-> SubSeq(s, 1, i - 1), v |-> SubSeq(s, i + 1, Len(s))]

UrlWellFormed(u) == Url_parse(u).ok

\* every argument is one the parsers accept: a URL that parses and, for
\* post, tokens that each contain a "="
ArgsWellFormed(a) ==
    /\ UrlWellFormed(a.url)
    /\ \A i \in 1..Len(a.tokens) : HasEq(a.tokens[i])

IsPrefix(s, t) == Len(s) <= Len(t) /\ s = SubSeq(t, 1, Len(s))

RenderSteps ==
    <<"print_status", "print_headers", "get_content_type", "text",
      "print_body">>

Received == resp # None

HasContentType(r) == \E i \in 1..Len(r.headers) : r.headers[i].name = CONTENT_TYPE

\* the value of the first Content-Type header
ContentTypeOf(r) == HeaderMap_get(r.headers, CONTENT_TYPE).val

\* the Content-Type header is there but is not text or not a MIME type
ContentTypeUnparsable(r) ==
    /\ HasContentType(r)
    /\ \/ ~ContentTypeOf(r).ascii
       \/ ~Mime_from_str(ContentTypeOf(r).bytes).ok

ContentTypeIs(r, t) ==
    /\ HasContentType(r)
    /\ ContentTypeOf(r).ascii
    /\ ContentTypeOf(r).bytes = t

BodyLines(out) == SelectSeq(out, LAMBDA l : l.kind \in {"raw", "highlighted"})

----------------------------------------------------------------------------
(* Properties *)

\* the arguments reached the key=value parser: the URL was accepted
KvParsed == pc # "main" /\ argv.subcmd = "post" /\ UrlWellFormed(argv.url)

\* C1: parsing a token agrees with splitting it once on its first "=": a
\* token without "=" fails with an error carrying the token, a token with
\* "=" gives the key before the first "=" and as value all that follows it.
C1_SplitOnceAgreement ==
    KvParsed =>
        IF \A i \in 1..Len(argv.tokens) : HasEq(argv.tokens[i])
        THEN /\ opts # None
             /\ Len(opts.body) = Len(argv.tokens)
             /\ \A i \in 1..Len(argv.tokens) :
                    opts.body[i] = SplitOnce(argv.tokens[i])
        ELSE /\ opts = None
             /\ exitCode = EXIT_USAGE
             /\ \E i \in 1..Len(argv.tokens) :
                    /\ ~HasEq(argv.tokens[i])
                    /\ stderr = <<[kind |-> "usage",
                                   msg |-> ParseErr(argv.tokens[i])]>>

\* C2: argument validation precedes all network activity: with a malformed
\* URL or a malformed key=value token the process ends with a non-zero
\* status, no client is ever built and no request is ever sent; a request
\* is sent only when every argument parsed.
C2_ValidationPrecedesNetwork ==
    /\ (client # None \/ requests # <<>>) =>
            ArgsWellFormed(argv) /\ opts # None
    /\ requests # <<>> => client # None
    /\ (~ArgsWellFormed(argv) /\ pc # "main") =>
            /\ pc = "exited"
            /\ exitCode \notin {NoExit, EXIT_OK}
            /\ client = None
            /\ requests = <<>>

\* a run that was refused for a malformed token after its URL was accepted
C2_Witness ==
    /\ pc = "exited"
    /\ exitCode = EXIT_USAGE
    /\ UrlWellFormed(argv.url)
    /\ \E i \in 1..Len(argv.tokens) : ~HasEq(argv.tokens[i])
    /\ client = None
    /\ requests = <<>>

LastOccurrence(pairs, key) ==
    CHOOSE i \in 1..Len(pairs) :
        /\ pairs[i].k = key
        /\ \A j \in (i+1)..Len(pairs) : pairs[j].k # key

\* C3: the body mapping post sends has exactly the keys of the pairs, and
\* each key maps to the value of its last occurrence.
C3_BodyMapping ==
    \A n \in 1..Len(requests) :
        requests[n].method = "POST" =>
            LET m == requests[n].json
                pairs == opts.body
            IN /\ DOMAIN m = {pairs[i].k : i \in 1..Len(pairs)}
               /\ \A key \in DOMAIN m :
                      m[key] = pairs[LastOccurrence(pairs, key)].v

\* a post was sent whose pairs repeat a key with a different value
C3_WitnessDuplicate ==
    /\ requests # <<>>
    /\ requests[1].method = "POST"
    /\ Len(opts.body) = 2
    /\ opts.body[1].k = opts.body[2].k
    /\ opts.body[1].v # opts.body[2].v

\* C7: every KvPair has a non-empty key and a non-empty value, so none
\* with an empty key or value reaches the POST body mapping.
C7_NonEmptyPairs ==
    /\ (opts # None /\ argv.subcmd = "post") =>
            \A i \in 1..Len(opts.body) :
                opts.body[i].k # <<>> /\ opts.body[i].v # <<>>
    /\ \A n \in 1..Len(requests) :
            requests[n].method = "POST" =>
                \A key \in DOMAIN requests[n].json :
                    key # <<>> /\ requests[n].json[key] # <<>>

\* the body was read in a get run, so print_body is reached
BodyRendered == argv.subcmd = "get" /\ pc = "exited" /\ body # None

\* C4: the body's rendering path follows the Content-Type alone:
\* application/json goes through the highlighter with the json grammar,
\* text/html with the html grammar, and without a Content-Type or with
\* another type the raw body is printed unchanged and the highlighter is
\* not invoked.
C4_BodyPathFromContentType ==
    BodyRendered =>
        /\ exitCode = EXIT_OK
        /\ CASE ContentTypeIs(resp, "application/json") ->
                    /\ syntect = <<[s |-> body.some, ext |-> "json"]>>
                    /\ \A i \in 1..Len(stdout) : stdout[i].kind # "raw"
                    /\ \A i \in 1..Len(BodyLines(stdout)) :
                            BodyLines(stdout)[i].ext = "json"
             [] ContentTypeIs(resp, "text/html") ->
                    /\ syntect = <<[s |-> body.some, ext |-> "html"]>>
                    /\ \A i \in 1..Len(stdout) : stdout[i].kind # "raw"
                    /\ \A i \in 1..Len(BodyLines(stdout)) :
                            BodyLines(stdout)[i].ext = "html"
             [] OTHER ->
                    /\ syntect = <<>>
                    /\ BodyLines(stdout) =
                            <<[kind |-> "raw", text |-> body.some]>>

\* a text/html body of two lines went through the highlighter
C4_WitnessHtml ==
    /\ BodyRendered
    /\ ContentTypeIs(resp, "text/html")
    /\ syntect # <<>>
    /\ Len(BodyLines(stdout)) = 2

\* C5: content-type detection never fails the invocation: without a
\* Content-Type header, or with one that is not text or not a MIME type,
\* get_content_type yields None and the body is printed as plain text.
C5_DetectionNeverFails ==
    (/\ argv.subcmd = "get"
     /\ Received
     /\ Len(calls) >= 3
     /\ (~HasContentType(resp) \/ ContentTypeUnparsable(resp))) =>
        /\ exitCode # EXIT_PANIC
        /\ mime = None
        /\ Len(calls) = 5 =>
              BodyLines(stdout) = <<[kind |-> "raw", text |-> body.some]>>

\* the output with the status code blanked
StatusBlind(out) ==
    [i \in 1..Len(out) |->
        IF out[i].kind = "status" THEN [out[i] EXCEPT !.status = 0]
        ELSE out[i]]

\* what the steps taken so far print for a response
RenderedSoFar(r) ==
    (IF Len(calls) >= 1 THEN print_status(r) ELSE <<>>)
    \o (IF Len(calls) >= 2 THEN print_headers(r) ELSE <<>>)
    \o (IF Len(calls) >= 5 THEN print_body(mime, body.some) ELSE <<>>)

TextFailure == [kind |-> "error", msg |-> <<"error decoding response body">>]
UnwrapPanic == [kind |-> "panic", msg |-> <<"unwrap">>]

\* C6: the status code of a received response never changes the control
\* flow: whatever the status, the response reaches the same rendering
\* steps and the run exits with zero; it fails only when the transport
\* delivers no response or a later stage fails.
C6_StatusNeverChangesFlow ==
    \A n \in 1..Len(requests) :
        requests[n].reply.ok =>
            /\ resp = requests[n].reply.val
            /\ pc \in {"post_text", "print_status", "print_headers",
                       "get_content_type", "text", "print_body", "exited"}
            /\ argv.subcmd = "get" =>
                  /\ IsPrefix(calls, RenderSteps)
                  /\ StatusBlind(stdout) =
                        StatusBlind(RenderedSoFar([resp EXCEPT !.status = 200]))
            /\ pc = "exited" =>
                  \/ exitCode = EXIT_OK /\ stderr = <<>>
                  \/ exitCode = EXIT_ERR /\ stderr = <<TextFailure>>
                  \/ /\ exitCode = EXIT_PANIC
                     /\ stderr = <<UnwrapPanic>>
                     /\ ContentTypeUnparsable(resp)

\* responses with error statuses were rendered to the end, exit status zero
C6_WitnessServerError ==
    /\ pc = "exited"
    /\ exitCode = EXIT_OK
    /\ Received
    /\ resp.status = 500
    /\ argv.subcmd = "get"
    /\ Len(calls) = 5

\* C8: a failed invocation reports no partial success: when the run ends
\* in a failure, nothing of the response has been printed to stdout.
C8_NoPartialOutput ==
    (pc = "exited" /\ exitCode # EXIT_OK) => stdout = <<>>

\* the lines of the header section, written out
HeaderSection(r) ==
    [i \in 1..(Len(r.headers) + 1) |->
        IF i <= Len(r.headers)
        THEN [kind |-> "header", name |-> r.headers[i].name,
              value |-> r.headers[i].value.bytes]
        ELSE Blank]

StatusSection(r) ==
    <<[kind |-> "status", version |-> r.version, status |-> r.status], Blank>>

\* C9: for a received GET response the renderer's steps come in one fixed
\* order: the status line, then one line per header in the order of the
\* response's headers and a blank line, then the content type is
\* determined, then the body is read and printed.
C9_RenderOrder ==
    (argv.subcmd = "get" /\ Received) =>
        /\ IsPrefix(calls, RenderSteps)
        /\ Len(calls) = 0 => stdout = <<>>
        /\ Len(calls) = 1 => stdout = StatusSection(resp)
        /\ Len(calls) \in 2..4 =>
              stdout = StatusSection(resp) \o HeaderSection(resp)
        /\ Len(calls) = 5 =>
              /\ IsPrefix(StatusSection(resp) \o HeaderSection(resp), stdout)
              /\ SubSeq(stdout, Len(resp.headers) + 4, Len(stdout))
                    = BodyLines(stdout)
        /\ Len(calls) < 3 => mime = None
        /\ Len(calls) < 4 => body = None
        /\ Len(calls) = 5 => body # None

\* two different headers and a body were printed
C9_WitnessTwoHeaders ==
    /\ argv.subcmd = "get"
    /\ Received
    /\ Len(calls) = 5
    /\ Len(resp.headers) = 2
    /\ resp.headers[1] # resp.headers[2]
    /\ BodyLines(stdout) # <<>>

\* C10: a post run prints only the response text in debug-quoted form,
\* never a status line, a header section or highlighted output; a get
\* run goes through the status/header/body renderer.
C10_PostPrintsDebugOnly ==
    /\ argv.subcmd = "post" =>
          /\ calls = <<>>
          /\ syntect = <<>>
          /\ Len(stdout) <= 1
          /\ \A i \in 1..Len(stdout) :
                /\ stdout[i].kind = "debug"
                /\ \E b \in Bodies : stdout[i].text = DebugFmt(b)
          /\ (pc = "exited" /\ exitCode = EXIT_OK) => Len(stdout) = 1
    /\ (argv.subcmd = "get" /\ Received) =>
          /\ \A i \in 1..Len(stdout) : stdout[i].kind # "debug"
          /\ pc # "post_text"
          /\ pc = "exited" => (calls # <<>> /\ stdout[1].kind = "status")
          /\ (pc = "exited" /\ exitCode = EXIT_OK) => calls = RenderSteps

\* a post printed a text that needed escaping
C10_WitnessEscaped ==
    /\ argv.subcmd = "post"
    /\ pc = "exited"
    /\ exitCode = EXIT_OK
    /\ Len(stdout) = 1
    /\ stdout[1].text = DebugFmt(JsonText)
    /\ Len(stdout[1].text) = Len(JsonText) + 4

====
